---------------------------- MODULE Spec2Model ----------------------------
(***************************************************************************)
(* The layout engine of flowscope (src/src/components/LayoutSelector.tsx): *)
(* applyGridLayout, applyHierarchicalLayout and applyForceLayout, each     *)
(* modelled as one call that runs from its arguments to its returned map;  *)
(* the navigation store (useFlowStore) with its asynchronous navigation;   *)
(* and the reconnecting socket of the useWebSocket hook.                   *)
(***************************************************************************)
EXTENDS Integers, Sequences, FiniteSets, TLC

VARIABLES
    fn,           \* which layout function this call is
    pc,           \* position of the call: "call", "bfs", "iterate", "done";
                  \* "threw" when it ended in an exception
    nodes,        \* argument: sequence of [id, position]
    connections,  \* argument: sequence of [source, target]
    args,         \* the numeric parameters of the call
    children,     \* hierarchical: adjacency object, id -> sequence of targets
    queue,        \* hierarchical: BFS queue of [id, level]
    visited,      \* hierarchical: set of visited ids
    levels,       \* hierarchical: id -> level, Undefined when not a key
    levelKeys,    \* hierarchical: keys of `levels` in insertion order
    positions,    \* the returned Record<string, {x, y}>
    velocities,   \* force: id -> {x, y}
    i,            \* force: loop counter
    store,        \* useFlowStore: the state object that get() returns
    liveFlowchartCache,          \* store module: ids with a cached live flowchart
    fetchLiveFlowchartCallback,  \* store module: TRUE when a callback is set
    fetches,      \* navigateToFlowchartAsync calls waiting at their await:
                  \* id -> number of calls
    wsRef,        \* useWebSocket: wsRef.current, a socket or NoSocket
    reconnectAttemptsRef,  \* useWebSocket: reconnectAttemptsRef.current
    reconnectTimeoutRef,   \* useWebSocket: TRUE when the timer the ref holds
                           \* has neither fired nor been cleared
    timers,       \* useWebSocket: number of pending reconnect timers
    sockets,      \* useWebSocket: socket -> "none", "connecting", "open",
                  \* "closing", "closed" (WebSocket.readyState)
    active,       \* useWebSocket: enabled && isLiveMode of the last render
    connected,    \* useWebSocket: state.connected
    scheduled,    \* history: reconnect timers scheduled since the last open
    disconnected  \* history: disconnect() ran and connect() was not invoked
                  \* by the effect or the caller since

layoutVars == <<fn, pc, nodes, connections, args, children, queue, visited,
                levels, levelKeys, positions, velocities, i>>
storeVars == <<store, liveFlowchartCache, fetchLiveFlowchartCallback, fetches>>
hookVars == <<wsRef, reconnectAttemptsRef, reconnectTimeoutRef, timers, sockets,
              active, connected, scheduled, disconnected>>

vars == <<fn, pc, nodes, connections, args, children, queue, visited,
          levels, levelKeys, positions, velocities, i, storeVars, hookVars>>

-----------------------------------------------------------------------------
(* Bounds of the model *)

MaxGridNodes == 5
MaxNodes == 3
MaxEdges == 3
MaxForceEdges == 2
MaxIterations == 2

(* Ids.  "1" is a canonical array index: a JavaScript object enumerates    *)
(* such keys first, in ascending numeric order, before its other string    *)
(* keys (which come in insertion order).                                   *)
GridIds == {"a", "b", "c", "d", "1"}
HierIds == {"a", "b", "1"}
ForceIds == {"a", "b"}
Ids == GridIds \cup HierIds \cup ForceIds \cup {"x"}

IsArrayIndex(id) == id \in {"1"}
ArrayIndex(id) == CASE id = "1" -> 1 [] OTHER -> -1

Undefined == -1

Point(px, py) == [x |-> px, y |-> py]
EmptyMap == [id \in {} |-> Point(0, 0)]

SeqsUpTo(S, n) == UNION {[1..k -> S] : k \in 0..n}
Unique(s) == \A p, q \in 1..Len(s) : p # q => s[p] # s[q]
IdsOf(ns) == {ns[k].id : k \in 1..Len(ns)}

IndexOf(s, e) == CHOOSE k \in 1..Len(s) : s[k] = e

-----------------------------------------------------------------------------
(* applyGridLayout *)

\* a grid that puts every node in the first column
GridColFirst(index, columns) == 0

GridCol(index, columns) == index % columns

\* Math.round in place of Math.floor
GridRowRounded(index, columns) == (2 * index + columns) \div (2 * columns)

GridRow(index, columns) == index \div columns

GridSlot(index, a) ==
    Point(GridCol(index, a.columns) * (a.nodeWidth + a.gapX) + 50,
          GridRow(index, a.columns) * (a.nodeHeight + a.gapY) + 50)

\* a grid that offsets every slot by the node's current position
applyGridLayoutFromSeed(ns, a) ==
    [id \in IdsOf(ns) |->
        LET last == CHOOSE k \in 1..Len(ns) : ns[k].id = id
            slot == GridSlot(last - 1, a)
        IN  Point(slot.x + ns[last].position.x, slot.y + ns[last].position.y)]

\* nodes.forEach((node, index) => positions[node.id] = ...): a later node
\* with the same id overwrites an earlier one
applyGridLayout(ns, a) ==
    [id \in IdsOf(ns) |->
        LET last == CHOOSE k \in 1..Len(ns) :
                      /\ ns[k].id = id
                      /\ \A m \in k+1..Len(ns) : ns[m].id # id
        IN  GridSlot(last - 1, a)]

GridDefaults == [columns |-> 4, nodeWidth |-> 200, nodeHeight |-> 100,
                 gapX |-> 50, gapY |-> 50]
GridArgs == {GridDefaults,
             [columns |-> 2, nodeWidth |-> 120, nodeHeight |-> 40,
              gapX |-> 10, gapY |-> 30]}

-----------------------------------------------------------------------------
(* applyHierarchicalLayout *)

TargetNodes(conns) == {conns[k].target : k \in 1..Len(conns)}

RootNodes(ns, conns) ==
    SelectSeq(ns, LAMBDA n : n.id \notin TargetNodes(conns))

\* children[c.source].push(c.target) for every connection, in order
ChildrenOf(conns, id) ==
    LET mine == SelectSeq(conns, LAMBDA c : c.source = id)
    IN  [k \in 1..Len(mine) |-> mine[k].target]

\* a queue that seeds the roots one level down
InitialQueueLevelOne(ns, conns) ==
    LET roots == SelectSeq(ns, LAMBDA n : n.id \notin TargetNodes(conns))
    IN  [k \in 1..Len(roots) |-> [id |-> roots[k].id, level |-> 1]]

InitialQueue(ns, conns) ==
    LET roots == RootNodes(ns, conns)
    IN  [k \in 1..Len(roots) |-> [id |-> roots[k].id, level |-> 0]]

\* a dequeue that never skips: every queue entry levels its node again
NeverVisited(seen, id) == FALSE

\* if (visited.has(id)) continue
AlreadyVisited(seen, id) == id \in seen

\* a dequeue that forgets to record the visit
MarkVisitedNever(seen, id) == seen

\* visited.add(id)
MarkVisited(seen, id) == seen \cup {id}

\* levels[id] = level on an ordinary object: a new key goes last, an existing
\* key keeps its place
SetKey(keys, id) ==
    IF \E k \in 1..Len(keys) : keys[k] = id THEN keys ELSE Append(keys, id)

\* the entries pushed for the children of a node dequeued at `level`
Pushed(kids, seen, level) ==
    LET fresh == SelectSeq(kids, LAMBDA c : c \notin seen)
    IN  [k \in 1..Len(fresh) |-> [id |-> fresh[k], level |-> level + 1]]

\* a backfill of the nodes that no connection mentions only
BackfillUnconnected(ns, lv) ==
    LET ends == {connections[k].source : k \in 1..Len(connections)}
                  \cup {connections[k].target : k \in 1..Len(connections)}
        missing == SelectSeq(ns, LAMBDA n : lv[n.id] = Undefined /\ n.id \notin ends)
    IN  [k \in 1..Len(missing) |-> missing[k].id]

\* nodes.forEach(n => if (levels[n.id] === undefined) levels[n.id] = 0)
BackfillIds(ns, lv) ==
    LET missing == SelectSeq(ns, LAMBDA n : lv[n.id] = Undefined)
    IN  [k \in 1..Len(missing) |-> missing[k].id]

RECURSIVE SortByIndex(_)
SortByIndex(S) ==
    IF S = {} THEN <<>>
    ELSE LET m == CHOOSE e \in S : \A o \in S : ArrayIndex(e) <= ArrayIndex(o)
         IN  <<m>> \o SortByIndex(S \ {m})

\* the key order of Object.entries / Object.keys on an ordinary object
\* whose keys were inserted in the order `keys`
OwnKeys(keys) ==
    SortByIndex({keys[k] : k \in {m \in 1..Len(keys) : IsArrayIndex(keys[m])}})
      \o SelectSeq(keys, LAMBDA e : ~IsArrayIndex(e))

\* nodesPerLevel[level]
NodesPerLevel(keys, lv, level) ==
    SelectSeq(OwnKeys(keys), LAMBDA e : lv[e] = level)

\* a row that starts at the center instead of being centered on it
StartXUncentered(count, nodeSpacing) == 0

StartX(count, nodeSpacing) == (0 - ((count - 1) * nodeSpacing)) \div 2

LevelPosition(index, count, level, a) ==
    Point(StartX(count, a.nodeSpacing) + index * a.nodeSpacing + 400,
          level * a.levelHeight + 50)

PositionNodes(keys, lv, a) ==
    [id \in {keys[k] : k \in 1..Len(keys)} |->
        LET row == NodesPerLevel(keys, lv, lv[id])
        IN  LevelPosition(IndexOf(row, id) - 1, Len(row), lv[id], a)]

\* the while loop, run to the end from one state of the traversal
RECURSIVE BfsRun(_, _)
BfsRun(st, kids) ==
    IF st.queue = <<>> THEN st
    ELSE LET id == Head(st.queue).id
             level == Head(st.queue).level
         IN  IF AlreadyVisited(st.visited, id)
             THEN BfsRun([st EXCEPT !.queue = Tail(st.queue)], kids)
             ELSE LET seen == MarkVisited(st.visited, id)
                  IN  BfsRun([queue |-> Tail(st.queue) \o Pushed(kids[id], seen, level),
                              visited |-> seen,
                              levels |-> [st.levels EXCEPT ![id] = level],
                              levelKeys |-> SetKey(st.levelKeys, id)], kids)

\* the whole call, lines 147-214
applyHierarchicalLayout(ns, conns, a) ==
    LET kids == [id \in Ids |-> ChildrenOf(conns, id)]
        bfs == BfsRun([queue |-> InitialQueue(ns, conns), visited |-> {},
                       levels |-> [id \in Ids |-> Undefined], levelKeys |-> <<>>], kids)
        fill == BackfillIds(ns, bfs.levels)
        lv == [id \in Ids |-> IF id \in {fill[k] : k \in 1..Len(fill)} THEN 0
                              ELSE bfs.levels[id]]
    IN  PositionNodes(bfs.levelKeys \o fill, lv, a)

HierDefaults == [levelHeight |-> 150, nodeSpacing |-> 200]
HierArgs == {HierDefaults, [levelHeight |-> 70, nodeSpacing |-> 60]}

-----------------------------------------------------------------------------
(* applyForceLayout.  Coordinates and velocities of this function are     *)
(* fixed-point numbers, in units of 1/Scale pixel; every product with a   *)
(* fractional coefficient and every quotient is rounded toward zero, so   *)
(* that, as with IEEE doubles, negating the operand negates the result.   *)

Scale == 10

TDiv(n, d) == IF n >= 0 THEN n \div d ELSE 0 - ((0 - n) \div d)

RECURSIVE SqrtBetween(_, _, _)
SqrtBetween(n, lo, hi) ==
    IF lo >= hi THEN lo
    ELSE LET mid == (lo + hi + 1) \div 2
         IN  IF mid * mid <= n THEN SqrtBetween(n, mid, hi)
             ELSE SqrtBetween(n, lo, mid - 1)

\* Math.sqrt, rounded down to the fixed-point grid
Sqrt(n) == SqrtBetween(n, 0, 46340)

repulsionStrength == 5000
centerX == 400
centerY == 300

\* Math.sqrt(dx * dx + dy * dy) || 1
Dist(dx, dy) ==
    LET d == Sqrt(dx * dx + dy * dy)
    IN  IF d = 0 THEN Scale ELSE d

\* repulsionStrength / (dist * dist), in units of 1/Scale
Force(dist) == TDiv(repulsionStrength * Scale * Scale * Scale, dist * dist)

Abs(n) == IF n >= 0 THEN n ELSE 0 - n

\* (dx / dist) * force and (dy / dist) * force for one ordered pair.  Beyond
\* 30000 units on an axis the fixed-point force is 0 (its quotient is below
\* one unit), and it is not computed: the squares would leave 32 bits.
RepulsionOn(pa, pb) ==
    LET dx == pb.x - pa.x
        dy == pb.y - pa.y
    IN  IF Abs(dx) > 30000 \/ Abs(dy) > 30000 THEN Point(0, 0)
        ELSE LET dist == Dist(dx, dy)
                 force == Force(dist)
             IN  Point(TDiv(dx * force, dist), TDiv(dy * force, dist))

RECURSIVE SumPoints(_)
SumPoints(ps) ==
    IF ps = <<>> THEN Point(0, 0)
    ELSE LET r == SumPoints(Tail(ps))
         IN  Point(Head(ps).x + r.x, Head(ps).y + r.y)

\* what the repulsion loops subtract from velocities[id]
Repulsion(pos, ns, id) ==
    LET others == SelectSeq(ns, LAMBDA n : n.id # id)
    IN  SumPoints([k \in 1..Len(others) |-> RepulsionOn(pos[id], pos[others[k].id])])

\* dx * attractionStrength (0.05)
Attract(d) == TDiv(d * 5, 100)

\* an attraction step without the guard
NeverSkipped(pos, c) == FALSE

\* a guard that tests the source only: if (!posA) return
SkippedSourceOnly(pos, c) == c.source \notin DOMAIN pos

\* if (!posA || !posB) return
Skipped(pos, c) == c.source \notin DOMAIN pos \/ c.target \notin DOMAIN pos

\* posB.x, velocities[conn.source].x, ... read a property of undefined: the
\* connection raises a TypeError
Raises(pos, c) ==
    /\ ~Skipped(pos, c)
    /\ (c.source \notin DOMAIN pos \/ c.target \notin DOMAIN pos)

\* an attraction that subtracts posB in place of dx on the target's side
AttractionOfTargetTypo(pos, c, id) ==
    IF c.source \notin DOMAIN pos \/ c.target \notin DOMAIN pos
    THEN Point(0, 0)
    ELSE LET s == IF c.source = id THEN 1 ELSE 0
             t == IF c.target = id THEN 1 ELSE 0
         IN  Point(s * Attract(pos[c.target].x - pos[c.source].x) - t * Attract(pos[c.target].x),
                   s * Attract(pos[c.target].y - pos[c.source].y) - t * Attract(pos[c.target].y))

\* an attraction that pulls the source only
AttractionOfSourceOnly(pos, c, id) ==
    IF c.source \notin DOMAIN pos \/ c.target \notin DOMAIN pos
    THEN Point(0, 0)
    ELSE LET s == IF c.source = id THEN 1 ELSE 0
         IN  Point(s * Attract(pos[c.target].x - pos[c.source].x),
                   s * Attract(pos[c.target].y - pos[c.source].y))

\* what one connection adds to velocities[id]
AttractionOf(pos, c, id) ==
    IF Skipped(pos, c)
    THEN Point(0, 0)
    ELSE LET ax == Attract(pos[c.target].x - pos[c.source].x)
             ay == Attract(pos[c.target].y - pos[c.source].y)
             s == IF c.source = id THEN 1 ELSE 0
             t == IF c.target = id THEN 1 ELSE 0
         IN  Point(s * ax - t * ax, s * ay - t * ay)

\* an attraction that counts a repeated connection once
AttractionDeduplicated(pos, conns, id) ==
    SumPoints([k \in 1..Len(conns) |->
        IF \E m \in 1..k - 1 : conns[m] = conns[k] THEN Point(0, 0)
        ELSE AttractionOf(pos, conns[k], id)])

Attraction(pos, conns, id) ==
    SumPoints([k \in 1..Len(conns) |-> AttractionOf(pos, conns[k], id)])

\* a gravity toward the origin of the canvas
GravityTowardOrigin(p) == Point(TDiv(0 - p.x, 100), TDiv(0 - p.y, 100))

\* dx * 0.01 toward (centerX, centerY)
Gravity(p) ==
    Point(TDiv(centerX * Scale - p.x, 100), TDiv(centerY * Scale - p.y, 100))

\* velocities[id] after repulsion, attraction and center gravity
Accelerated(pos, vel, ns, conns, id) ==
    LET r == Repulsion(pos, ns, id)
        a == Attraction(pos, conns, id)
        g == Gravity(pos[id])
    IN  Point(vel[id].x - r.x + a.x + g.x, vel[id].y - r.y + a.y + g.y)

\* velocity *= damping (0.9)
Damped(v) == Point(TDiv(v.x * 9, 10), TDiv(v.y * 9, 10))

\* an integration that damps the velocity before it moves the node
IntegratedAfterDamping(p, v) == Point(p.x + Damped(v).x, p.y + Damped(v).y)

\* positions[node.id].x += velocities[node.id].x, .y likewise
Integrated(p, v) == Point(p.x + v.x, p.y + v.y)

\* positions[node.id] = node.position: the map holds the caller's object
Aliased(n) == TRUE

\* positions[node.id] = { ...node.position } is a new object: a later write
\* to positions[node.id] is not a write to node.position
SharesPosition(n) == FALSE

\* the caller's nodes after positions[node.id].x += ..., .y += ...
WrittenThrough(ns, pos) ==
    [k \in 1..Len(ns) |->
        IF SharesPosition(ns[k]) THEN [ns[k] EXCEPT !.position = pos[ns[k].id]]
        ELSE ns[k]]

\* a loop that runs once more: i <= iterations
LoopContinuesInclusive(k, iterations) == k <= iterations

\* i < iterations
LoopContinues(k, iterations) == k < iterations

\* one iteration of the loop on the positions and velocities st
ForceStep(st, ns, conns) ==
    LET v == [id \in DOMAIN st.vel |-> Accelerated(st.pos, st.vel, ns, conns, id)]
    IN  [pos |-> [id \in DOMAIN st.pos |-> Integrated(st.pos[id], v[id])],
         vel |-> [id \in DOMAIN st.vel |-> Damped(v[id])]]

RECURSIVE ForceRun(_, _, _, _)
ForceRun(st, ns, conns, k) ==
    IF k = 0 THEN st ELSE ForceRun(ForceStep(st, ns, conns), ns, conns, k - 1)

\* positions[node.id] = { ...node.position }: the last node of an id wins
SeedPositions(ns) ==
    [id \in IdsOf(ns) |->
        LET last == CHOOSE k \in 1..Len(ns) :
                      /\ ns[k].id = id
                      /\ \A m \in k+1..Len(ns) : ns[m].id # id
        IN  ns[last].position]

\* seed positions: the auto-layout handler's (0,0), a pair
\* mirrored about the center, and a point half a pixel from one of them
ForceSeeds == {Point(0, 0),
               Point(300 * Scale, 300 * Scale), Point(500 * Scale, 300 * Scale),
               Point(300 * Scale + Scale \div 2, 300 * Scale)}

\* the whole call, lines 216-286, when no connection raises
applyForceLayout(ns, conns, iterations) ==
    ForceRun([pos |-> SeedPositions(ns), vel |-> [id \in IdsOf(ns) |-> Point(0, 0)]],
             ns, conns, iterations).pos

ForceArgs == {[iterations |-> n] : n \in 0..MaxIterations}

-----------------------------------------------------------------------------
(* Arguments *)

Origin == Point(0, 0)
GridSeeds == {Origin, Point(250, 50)}

NodeSeqs(ids, seeds, n) ==
    {s \in SeqsUpTo([id : ids, position : seeds], n) : Unique([k \in 1..Len(s) |-> s[k].id])}

ConnSeqs(ids, n) == SeqsUpTo([source : ids, target : ids], n)

(* useFlowStore *)

MaxStack == 3
MaxFetches == 2

\* flowchartData holds "system-overview" and the detail flowcharts; the live
\* API also serves flowcharts that flowchartData does not hold
Home == "system-overview"
MockIds == {Home, "api-gateway-detail"}
FlowIds == MockIds \cup {"live-only"}

Mock(id) == [id |-> id, source |-> "flowchartData"]
Live(id) == [id |-> id, source |-> "live"]
NullChart == [id |-> "null", source |-> "null"]
UndefinedChart == [id |-> "undefined", source |-> "undefined"]

\* flowchartData[id]
FlowchartData(id) == IF id \in MockIds THEN Mock(id) ELSE UndefinedChart

\* if (isLiveMode && liveFlowchartCache[id]) return liveFlowchartCache[id];
\* return flowchartData[id]
getFlowchart(id, isLiveMode, cache) ==
    IF isLiveMode /\ id \in cache THEN Live(id) ELSE FlowchartData(id)

\* navigationStack.slice(0, targetIndex)
SlicedBefore(stack, targetIndex) == SubSeq(stack, 1, targetIndex)

\* navigationStack.slice(0, targetIndex + 1), targetIndex counted from 0
Sliced(stack, targetIndex) == SubSeq(stack, 1, targetIndex + 1)

\* the entries of navigationStack are modelled by their ids (the label is the
\* name of the flowchart of that id)
Navigated(st, id, flowchart) ==
    [st EXCEPT !.currentFlowchartId = id,
               !.currentFlowchart = flowchart,
               !.navigationStack = Append(st.navigationStack, id),
               !.selectedNode = "null"]

StoreCreated ==
    /\ store = [currentFlowchartId |-> Home,
                currentFlowchart |-> Mock(Home),
                navigationStack |-> <<Home>>,
                selectedNode |-> "null",
                isLiveMode |-> FALSE,
                isNavigating |-> FALSE]
    /\ liveFlowchartCache = {}
    /\ fetchLiveFlowchartCallback = FALSE
    /\ fetches = [id \in FlowIds |-> 0]

InFlight == fetches[Home] + fetches["api-gateway-detail"] + fetches["live-only"]

-----------------------------------------------------------------------------
(* useWebSocket *)

MaxSockets == 3

\* the option maxReconnectAttempts (10 when the caller passes none)
maxReconnectAttempts == 2

NoSocket == 0
Sockets == 1..MaxSockets

\* a retry test that allows one attempt more
CanRetryInclusive(attempts) == attempts <= maxReconnectAttempts

\* reconnectAttemptsRef.current < maxReconnectAttempts
CanRetry(attempts) == attempts < maxReconnectAttempts

\* the socket that the next `new WebSocket(wsUrl)` creates
NewSocket == CHOOSE s \in Sockets : sockets[s] = "none" /\ \A r \in 1..s - 1 : sockets[r] # "none"
CanCreate == \E s \in Sockets : sockets[s] = "none"

HookMounted ==
    /\ wsRef = NoSocket
    /\ reconnectAttemptsRef = 0
    /\ reconnectTimeoutRef = FALSE
    /\ timers = 0
    /\ sockets = [s \in Sockets |-> "none"]
    /\ active = FALSE
    /\ connected = FALSE
    /\ scheduled = 0
    /\ disconnected = FALSE

\* the refs and sockets after disconnect(), lines 157-169: the timer the ref
\* holds is cleared and the current socket is told to close; its close event
\* comes later
Disconnected(st) ==
    [st EXCEPT
        !.timers = IF st.reconnectTimeoutRef THEN st.timers - 1 ELSE st.timers,
        !.reconnectTimeoutRef = FALSE,
        !.sockets = IF st.wsRef # NoSocket
                    THEN [st.sockets EXCEPT ![st.wsRef] = "closing"] ELSE st.sockets,
        !.wsRef = NoSocket,
        !.connected = FALSE]

\* the refs and sockets after the body of connect(), lines 78-151
Connected(st, s) ==
    [st EXCEPT !.sockets = [st.sockets EXCEPT ![s] = "connecting"],
               !.wsRef = s]

HookState ==
    [wsRef |-> wsRef, reconnectTimeoutRef |-> reconnectTimeoutRef, timers |-> timers,
     sockets |-> sockets, connected |-> connected]

SetHookState(st) ==
    /\ wsRef' = st.wsRef
    /\ reconnectTimeoutRef' = st.reconnectTimeoutRef
    /\ timers' = st.timers
    /\ sockets' = st.sockets
    /\ connected' = st.connected

-----------------------------------------------------------------------------
Idle ==
    /\ StoreCreated
    /\ HookMounted
    /\ children = [id \in Ids |-> <<>>]
    /\ queue = <<>>
    /\ visited = {}
    /\ levels = [id \in Ids |-> Undefined]
    /\ levelKeys = <<>>
    /\ positions = EmptyMap
    /\ velocities = EmptyMap
    /\ i = 0

InitGrid ==
    /\ fn = "grid"
    /\ pc = "call"
    /\ nodes \in NodeSeqs(GridIds, GridSeeds, MaxGridNodes)
    /\ connections = <<>>
    /\ args \in GridArgs
    /\ Idle

InitHier ==
    /\ fn = "hierarchical"
    /\ pc = "call"
    /\ nodes \in NodeSeqs(HierIds, {Origin}, MaxNodes)
    /\ connections \in ConnSeqs(HierIds, MaxEdges)
    /\ args \in HierArgs
    /\ Idle

InitForce ==
    /\ fn = "force"
    /\ pc = "call"
    /\ nodes \in NodeSeqs(ForceIds, ForceSeeds, Cardinality(ForceIds))
    /\ connections \in ConnSeqs(ForceIds \cup {"x"}, MaxForceEdges)
    /\ args \in ForceArgs
    /\ Idle

\* a graph of one node: seeds at the center, on its axes and off them
SingleSeeds == {Point(centerX * Scale, centerY * Scale), Point(0, 0),
                Point(300 * Scale, 300 * Scale), Point(centerX * Scale, 0),
                Point(700 * Scale, 100 * Scale), Point(130 * Scale, 470 * Scale)}

InitSingle ==
    /\ fn = "force"
    /\ pc = "call"
    /\ nodes \in {ns \in NodeSeqs(ForceIds, SingleSeeds, 1) : Len(ns) = 1}
    /\ connections \in ConnSeqs(ForceIds \cup {"x"}, MaxForceEdges)
    /\ args \in ForceArgs
    /\ Idle

Init == InitGrid \/ InitHier \/ InitForce

-----------------------------------------------------------------------------
(* Actions *)

GridLayout ==
    /\ fn = "grid" /\ pc = "call"
    /\ positions' = applyGridLayout(nodes, args)
    /\ pc' = "done"
    /\ UNCHANGED <<storeVars, hookVars, fn, nodes, connections, args, children, queue, visited,
                   levels, levelKeys, velocities, i>>

\* lines 153-169: roots, adjacency list, initial queue
HierSetup ==
    /\ fn = "hierarchical" /\ pc = "call"
    /\ children' = [id \in Ids |-> ChildrenOf(connections, id)]
    /\ queue' = InitialQueue(nodes, connections)
    /\ pc' = "bfs"
    /\ UNCHANGED <<storeVars, hookVars, fn, nodes, connections, args, visited, levels, levelKeys,
                   positions, velocities, i>>

\* one iteration of while (queue.length > 0)
BfsStep ==
    /\ fn = "hierarchical" /\ pc = "bfs"
    /\ queue # <<>>
    /\ LET id == Head(queue).id
           level == Head(queue).level
       IN  IF AlreadyVisited(visited, id)
           THEN /\ queue' = Tail(queue)
                /\ UNCHANGED <<visited, levels, levelKeys>>
           ELSE /\ visited' = MarkVisited(visited, id)
                /\ levels' = [levels EXCEPT ![id] = level]
                /\ levelKeys' = SetKey(levelKeys, id)
                /\ queue' = Tail(queue) \o Pushed(children[id], visited', level)
    /\ UNCHANGED <<storeVars, hookVars, fn, pc, nodes, connections, args, children, positions,
                   velocities, i>>

\* lines 185-213: backfill, group by level, position, return
HierFinish ==
    /\ fn = "hierarchical" /\ pc = "bfs"
    /\ queue = <<>>
    /\ LET fill == BackfillIds(nodes, levels)
       IN  /\ levels' = [id \in Ids |->
                           IF id \in {fill[k] : k \in 1..Len(fill)} THEN 0
                           ELSE levels[id]]
           /\ levelKeys' = levelKeys \o fill
    /\ positions' = PositionNodes(levelKeys', levels', args)
    /\ pc' = "done"
    /\ UNCHANGED <<storeVars, hookVars, fn, nodes, connections, args, children, queue, visited,
                   velocities, i>>

\* lines 222-229
ForceSetup ==
    /\ fn = "force" /\ pc = "call"
    /\ positions' = SeedPositions(nodes)
    /\ velocities' = [id \in IdsOf(nodes) |-> Point(0, 0)]
    /\ i' = 0
    /\ pc' = "iterate"
    /\ UNCHANGED <<storeVars, hookVars, fn, nodes, connections, args, children, queue, visited,
                   levels, levelKeys>>

\* one iteration of for (let i = 0; i < iterations; i++)
ForceIterate ==
    /\ fn = "force" /\ pc = "iterate"
    /\ LoopContinues(i, args.iterations)
    /\ IF \E k \in 1..Len(connections) : Raises(positions, connections[k])
       THEN /\ pc' = "threw"
            /\ UNCHANGED <<positions, velocities, i, nodes>>
       ELSE LET v == [id \in DOMAIN velocities |->
                       Accelerated(positions, velocities, nodes, connections, id)]
            IN  /\ positions' = [id \in DOMAIN positions |->
                                   Integrated(positions[id], v[id])]
                /\ velocities' = [id \in DOMAIN velocities |-> Damped(v[id])]
                /\ nodes' = WrittenThrough(nodes, positions')
                /\ i' = i + 1
                /\ pc' = pc
    /\ UNCHANGED <<storeVars, hookVars, fn, connections, args, children, queue, visited,
                   levels, levelKeys>>

ForceReturn ==
    /\ fn = "force" /\ pc = "iterate"
    /\ ~LoopContinues(i, args.iterations)
    /\ pc' = "done"
    /\ UNCHANGED <<storeVars, hookVars, fn, nodes, connections, args, children, queue, visited,
                   levels, levelKeys, positions, velocities, i>>

NextGrid == GridLayout
NextHier == HierSetup \/ BfsStep \/ HierFinish

NextForce == ForceSetup \/ ForceIterate \/ ForceReturn
Next == NextGrid \/ NextHier \/ NextForce

Spec == Init /\ [][Next]_vars
SpecForce == InitForce /\ [][NextForce]_vars
SpecSingle == InitSingle /\ [][NextForce]_vars
SpecGrid == InitGrid /\ [][NextGrid]_vars
SpecHier == InitHier /\ [][NextHier]_vars

\* the call runs to completion: no step of it waits on anything
SpecHierFair == SpecHier /\ WF_vars(NextHier)

-----------------------------------------------------------------------------
(* The store's operations.  JavaScript runs each of them to its end, or to  *)
(* its await, before anything else runs.                                    *)

\* no layout call is running
NoCall ==
    /\ fn = "none"
    /\ pc = "idle"
    /\ nodes = <<>>
    /\ connections = <<>>
    /\ args = [iterations |-> 0]

InitApp == NoCall /\ Idle

navigateToFlowchart(id) ==
    LET flowchart == getFlowchart(id, store.isLiveMode, liveFlowchartCache)
    IN  /\ Len(store.navigationStack) < MaxStack
        /\ store' = IF flowchart = UndefinedChart \/ store.currentFlowchartId = id
                    THEN store
                    ELSE Navigated(store, id, flowchart)
        /\ UNCHANGED <<liveFlowchartCache, fetchLiveFlowchartCallback, fetches,
                       layoutVars, hookVars>>

\* navigateToFlowchartAsync up to its return or its await
navigateToFlowchartAsync(id) ==
    LET cached == getFlowchart(id, store.isLiveMode, liveFlowchartCache)
    IN  /\ Len(store.navigationStack) < MaxStack
        /\ IF store.currentFlowchartId = id
           THEN UNCHANGED <<store, fetches>>
           ELSE IF cached # UndefinedChart
           THEN /\ store' = Navigated(store, id, cached)
                /\ UNCHANGED fetches
           ELSE IF store.isLiveMode /\ fetchLiveFlowchartCallback
           THEN /\ InFlight < MaxFetches
                /\ store' = [store EXCEPT !.isNavigating = TRUE]
                /\ fetches' = [fetches EXCEPT ![id] = @ + 1]
           ELSE UNCHANGED <<store, fetches>>
        /\ UNCHANGED <<liveFlowchartCache, fetchLiveFlowchartCallback,
                       layoutVars, hookVars>>

\* the rest of navigateToFlowchartAsync, when the promise of
\* fetchLiveFlowchartCallback(id) settles
FetchSettled(id, outcome) ==
    /\ fetches[id] > 0
    /\ fetches' = [fetches EXCEPT ![id] = @ - 1]
    /\ IF outcome = "flowchart"
       THEN /\ Len(store.navigationStack) < MaxStack
            /\ liveFlowchartCache' = liveFlowchartCache \cup {id}
            /\ store' = [Navigated(store, id, Live(id)) EXCEPT !.isNavigating = FALSE]
       ELSE /\ store' = [store EXCEPT !.isNavigating = FALSE]
            /\ UNCHANGED liveFlowchartCache
    /\ UNCHANGED <<fetchLiveFlowchartCallback, layoutVars, hookVars>>

\* toIndex is an index of the stack, or Undefined for navigateBack()
navigateBack(toIndex) ==
    /\ toIndex \in {Undefined} \cup (0..Len(store.navigationStack) - 1)
    /\ IF Len(store.navigationStack) <= 1
       THEN UNCHANGED store
       ELSE LET targetIndex == IF toIndex = Undefined
                               THEN Len(store.navigationStack) - 2 ELSE toIndex
                target == store.navigationStack[targetIndex + 1]
                flowchart == getFlowchart(target, store.isLiveMode, liveFlowchartCache)
            IN  store' = [store EXCEPT
                    !.currentFlowchartId = target,
                    !.currentFlowchart = IF flowchart = UndefinedChart
                                         THEN NullChart ELSE flowchart,
                    !.navigationStack = Sliced(store.navigationStack, targetIndex),
                    !.selectedNode = "null"]
    /\ UNCHANGED <<liveFlowchartCache, fetchLiveFlowchartCallback, fetches,
                       layoutVars, hookVars>>

selectNode(node) ==
    /\ store' = [store EXCEPT !.selectedNode = node]
    /\ UNCHANGED <<liveFlowchartCache, fetchLiveFlowchartCallback, fetches,
                       layoutVars, hookVars>>

goHome ==
    LET homeFlowchart == getFlowchart(Home, store.isLiveMode, liveFlowchartCache)
    IN  /\ store' = [store EXCEPT
                !.currentFlowchartId = Home,
                !.currentFlowchart = IF homeFlowchart = UndefinedChart
                                     THEN FlowchartData(Home) ELSE homeFlowchart,
                !.navigationStack = <<Home>>,
                !.selectedNode = "null"]
        /\ UNCHANGED <<liveFlowchartCache, fetchLiveFlowchartCallback, fetches,
                       layoutVars, hookVars>>

\* setLiveFlowchart(flowchart) with flowchart.id = id
setLiveFlowchart(id) ==
    /\ liveFlowchartCache' = liveFlowchartCache \cup {id}
    /\ store' = IF store.currentFlowchartId = id
                THEN [store EXCEPT !.currentFlowchart = Live(id)]
                ELSE store
    /\ UNCHANGED <<fetchLiveFlowchartCallback, fetches, layoutVars, hookVars>>

setLiveMode(enabled) ==
    LET flowchart == getFlowchart(store.currentFlowchartId, enabled, liveFlowchartCache)
    IN  /\ store' = IF flowchart # UndefinedChart
                    THEN [store EXCEPT !.isLiveMode = enabled,
                                       !.currentFlowchart = flowchart]
                    ELSE [store EXCEPT !.isLiveMode = enabled]
        /\ UNCHANGED <<liveFlowchartCache, fetchLiveFlowchartCallback, fetches,
                       layoutVars, hookVars>>

setFetchCallback(callback) ==
    /\ fetchLiveFlowchartCallback' = callback
    /\ UNCHANGED <<store, liveFlowchartCache, fetches, layoutVars, hookVars>>

NextStore ==
    \/ \E id \in FlowIds : navigateToFlowchart(id)
    \/ \E id \in FlowIds : navigateToFlowchartAsync(id)
    \/ \E id \in FlowIds, outcome \in {"flowchart", "null", "rejected"} :
         FetchSettled(id, outcome)
    \/ \E toIndex \in {Undefined} \cup (0..MaxStack - 1) : navigateBack(toIndex)
    \/ \E node \in {"null", "node"} : selectNode(node)
    \/ goHome
    \/ \E id \in FlowIds : setLiveFlowchart(id)
    \/ \E enabled \in BOOLEAN : setLiveMode(enabled)
    \/ \E callback \in BOOLEAN : setFetchCallback(callback)

SpecStore == InitApp /\ [][NextStore]_vars

-----------------------------------------------------------------------------
(* The hook's callbacks *)

\* the effect of lines 172-182 after a render with enabled && isLiveMode = a:
\* the cleanup of the previous effect, then connect() or disconnect()
EffectRuns(a) ==
    /\ active' = a
    /\ IF a
       THEN /\ CanCreate
            /\ SetHookState(Connected(Disconnected(HookState), NewSocket))
            /\ disconnected' = FALSE
       ELSE /\ SetHookState(Disconnected(Disconnected(HookState)))
            /\ disconnected' = TRUE
    /\ UNCHANGED <<reconnectAttemptsRef, scheduled, layoutVars, storeVars>>

\* connect() called by the component that uses the hook
CallerConnects ==
    /\ IF active
       THEN /\ CanCreate
            /\ SetHookState(Connected(HookState, NewSocket))
       ELSE SetHookState(HookState)
    /\ disconnected' = FALSE
    /\ UNCHANGED <<reconnectAttemptsRef, active, scheduled, layoutVars, storeVars>>

\* disconnect() called by the component, or by the cleanup at unmount
Disconnects ==
    /\ SetHookState(Disconnected(HookState))
    /\ disconnected' = TRUE
    /\ UNCHANGED <<reconnectAttemptsRef, active, scheduled, layoutVars, storeVars>>

\* ws.onopen
SocketOpens(s) ==
    /\ sockets[s] = "connecting"
    /\ sockets' = [sockets EXCEPT ![s] = "open"]
    /\ reconnectAttemptsRef' = 0
    /\ connected' = TRUE
    /\ scheduled' = 0
    /\ UNCHANGED <<wsRef, reconnectTimeoutRef, timers, active, disconnected,
                   layoutVars, storeVars>>

\* ws.onclose
SocketCloses(s) ==
    /\ sockets[s] \in {"connecting", "open", "closing"}
    /\ sockets' = [sockets EXCEPT ![s] = "closed"]
    /\ connected' = FALSE
    /\ wsRef' = NoSocket
    /\ IF CanRetry(reconnectAttemptsRef)
       THEN /\ reconnectAttemptsRef' = reconnectAttemptsRef + 1
            /\ timers' = timers + 1
            /\ reconnectTimeoutRef' = TRUE
            /\ scheduled' = scheduled + 1
       ELSE UNCHANGED <<reconnectAttemptsRef, timers, reconnectTimeoutRef, scheduled>>
    /\ UNCHANGED <<active, disconnected, layoutVars, storeVars>>

\* a reconnect timer fires and calls the connect() of the render that created
\* the closed socket: enabled && isLiveMode were true in that render, so the
\* test of line 76 passes.  `held` says whether this is the timer the ref holds.
TimerFires(held) ==
    /\ IF held THEN reconnectTimeoutRef
               ELSE timers > (IF reconnectTimeoutRef THEN 1 ELSE 0)
    /\ CanCreate
    /\ timers' = timers - 1
    /\ reconnectTimeoutRef' = IF held THEN FALSE ELSE reconnectTimeoutRef
    /\ sockets' = [sockets EXCEPT ![NewSocket] = "connecting"]
    /\ wsRef' = NewSocket
    /\ UNCHANGED <<reconnectAttemptsRef, active, connected, scheduled, disconnected,
                   layoutVars, storeVars>>

NextHook ==
    \/ \E a \in BOOLEAN : EffectRuns(a)
    \/ CallerConnects
    \/ Disconnects
    \/ \E s \in Sockets : SocketOpens(s)
    \/ \E s \in Sockets : SocketCloses(s)
    \/ \E held \in BOOLEAN : TimerFires(held)

SpecHook == InitApp /\ [][NextHook]_vars

-----------------------------------------------------------------------------
(* Properties *)

Returned(f) == fn = f /\ pc = "done"

\* C1: the key set of the map applyHierarchicalLayout returns is exactly the
\* set of input node ids, also when connections name ids that are not nodes.
C1_HierKeysAreNodeIds ==
    Returned("hierarchical") => DOMAIN positions = IdsOf(nodes)

\* C2: applyGridLayout puts the node at 0-based index k at
\* ((k mod columns)*(nodeWidth+gapX)+50, floor(k/columns)*(nodeHeight+gapY)+50),
\* its keys are the input ids, and with the defaults index 4 is at (50, 200).
C2_GridSlots ==
    Returned("grid") =>
        /\ DOMAIN positions = IdsOf(nodes)
        /\ \A k \in 0..Len(nodes) - 1 :
             /\ positions[nodes[k + 1].id].x
                  = (k % args.columns) * (args.nodeWidth + args.gapX) + 50
             /\ positions[nodes[k + 1].id].y
                  = (k \div args.columns) * (args.nodeHeight + args.gapY) + 50
        /\ (args = GridDefaults /\ Len(nodes) >= 5)
             => positions[nodes[5].id] = Point(50, 200)

C2_Witness ==
    /\ Returned("grid")
    /\ args = GridDefaults
    /\ Len(nodes) = 5
    /\ positions[nodes[5].id] = Point(50, 200)
    /\ positions[nodes[4].id] = Point(800, 50)

Reorderings(n) == {p \in [1..n -> 1..n] : \A a, b \in 1..n : a # b => p[a] # p[b]}

\* C3: for applyGridLayout, the node at place k of any reordering of the node
\* list gets the slot the node at place k got in the original order, and the
\* set of occupied slots is the same; the nodes' seed positions play no role.
C3_GridPermutation ==
    Returned("grid") =>
        \A p \in Reorderings(Len(nodes)) :
            LET permuted == [k \in 1..Len(nodes) |-> nodes[p[k]]]
                r == applyGridLayout(permuted, args)
            IN  /\ \A k \in 1..Len(nodes) : r[permuted[k].id] = positions[nodes[k].id]
                /\ {r[e] : e \in DOMAIN r} = {positions[e] : e \in DOMAIN positions}

C3_Witness ==
    /\ Returned("grid")
    /\ Len(nodes) = 3
    /\ nodes[1].position # nodes[3].position
    /\ LET swapped == <<nodes[3], nodes[2], nodes[1]>>
           r == applyGridLayout(swapped, args)
       IN  /\ r[nodes[3].id] = positions[nodes[1].id]
           /\ r[nodes[3].id] # positions[nodes[3].id]

\* C5: with an empty node list each layout function returns an empty map and
\* does not raise, whatever the connections are.
C5_EmptyNodes ==
    nodes = <<>> =>
        /\ pc # "threw"
        /\ pc = "done" => positions = EmptyMap

C5_Witness ==
    /\ Returned("force")
    /\ nodes = <<>>
    /\ Len(connections) = 2
    /\ i = 2
    /\ positions = EmptyMap

\* C6: in applyHierarchicalLayout every input node that is the target of no
\* connection gets level 0, so its y is 50 whatever levelHeight is.
C6_RootsAtLevelZero ==
    Returned("hierarchical") =>
        \A k \in 1..Len(nodes) :
            nodes[k].id \notin TargetNodes(connections)
              => /\ levels[nodes[k].id] = 0
                 /\ nodes[k].id \in DOMAIN positions
                 /\ positions[nodes[k].id].y = 50

C6_Witness ==
    /\ Returned("hierarchical")
    /\ args # HierDefaults
    /\ Len(nodes) = 3
    /\ \E k \in 1..3 : nodes[k].id \notin TargetNodes(connections)
                         /\ positions[nodes[k].id].y = 50
    /\ \E k \in 1..3 : positions[nodes[k].id].y = 2 * args.levelHeight + 50

\* ids at k connections or less from a root, along the connections
RECURSIVE Within(_)
Within(k) ==
    IF k = 0 THEN {n \in IdsOf(nodes) : n \notin TargetNodes(connections)}
    ELSE LET near == Within(k - 1)
         IN  near \cup {connections[e].target :
                          e \in {m \in 1..Len(connections) : connections[m].source \in near}}

Reachable == Within(Len(connections))
ShortestPath(id) == CHOOSE k \in 0..Len(connections) :
                        id \in Within(k) /\ \A m \in 0..k-1 : id \notin Within(m)

C7_ShortestLevels ==
    Returned("hierarchical") =>
        \A k \in 1..Len(nodes) :
            nodes[k].id \in Reachable
              => /\ levels[nodes[k].id] = ShortestPath(nodes[k].id)
                 /\ positions[nodes[k].id].y
                      = ShortestPath(nodes[k].id) * args.levelHeight + 50

C7_LevelKept ==
    \A id \in Ids : levels[id] # Undefined => levels'[id] = levels[id]

\* C7: every node reachable from a root along the connections gets the length
\* of the shortest path from any root as its level, and a level, once the BFS
\* has assigned it, is changed neither by a later queue entry for the same
\* node nor by the backfill; nodes [A,B,C] with A->B, B->C get 0, 1, 2.
C7_BfsLevels == [](C7_ShortestLevels) /\ [][C7_LevelKept]_vars

\* a node reached at two depths (queued again after it was levelled), next
\* to the chain A->B->C
C7_Witness ==
    /\ Returned("hierarchical")
    /\ Len(nodes) = 3
    /\ connections = <<[source |-> nodes[1].id, target |-> nodes[2].id],
                       [source |-> nodes[1].id, target |-> nodes[3].id],
                       [source |-> nodes[2].id, target |-> nodes[3].id]>>
    /\ levels[nodes[1].id] = 0 /\ levels[nodes[2].id] = 1 /\ levels[nodes[3].id] = 1

C7_ChainWitness ==
    /\ Returned("hierarchical")
    /\ Len(nodes) = 3
    /\ connections = <<[source |-> nodes[1].id, target |-> nodes[2].id],
                       [source |-> nodes[2].id, target |-> nodes[3].id]>>
    /\ levels[nodes[1].id] = 0 /\ levels[nodes[2].id] = 1 /\ levels[nodes[3].id] = 2

\* C8: every input node the BFS never reaches (also every node, when all of
\* them have an incoming connection) is in the output, at level 0 (y = 50).
C8_UnreachedAtLevelZero ==
    Returned("hierarchical") =>
        \A k \in 1..Len(nodes) :
            nodes[k].id \notin visited
              => /\ nodes[k].id \in DOMAIN positions
                 /\ levels[nodes[k].id] = 0
                 /\ positions[nodes[k].id].y = 50

C8_Witness ==
    /\ Returned("hierarchical")
    /\ Len(nodes) = 2
    /\ connections = <<[source |-> nodes[1].id, target |-> nodes[2].id],
                       [source |-> nodes[2].id, target |-> nodes[1].id]>>
    /\ visited = {}
    /\ positions[nodes[1].id].y = 50 /\ positions[nodes[2].id].y = 50

InLevel(level) == {e \in DOMAIN positions : levels[e] = level}

Place(keys, id) == CHOOSE k \in 1..Len(keys) : keys[k] = id

\* C10: within a level, nodes stand left to right in the order in which they
\* were assigned the level (BFS dequeue order, then the backfilled nodes in
\* input order), whatever their ids are.
C10_RowInAssignmentOrder ==
    Returned("hierarchical") =>
        \A e, f \in DOMAIN positions :
            (levels[e] = levels[f] /\ Place(levelKeys, e) < Place(levelKeys, f))
              => positions[e].x < positions[f].x

Dangling(c, ns) == c.source \notin IdsOf(ns) \/ c.target \notin IdsOf(ns)
WithoutDangling(conns, ns) == SelectSeq(conns, LAMBDA c : ~Dangling(c, ns))

\* C11: applyHierarchicalLayout ignores dangling edges: the returned map is the
\* map of the same call with every edge that names an unknown id removed (so
\* an edge x -> b from an unknown x leaves b a root).
C11_DanglingIgnored ==
    Returned("hierarchical") =>
        positions = applyHierarchicalLayout(nodes, WithoutDangling(connections, nodes), args)

\* C12: applyForceLayout never raises on an edge with an absent end; the keys
\* of the returned map are the node ids and its positions are those of the
\* same call without the dangling edges.
C12_DanglingSkipped ==
    fn = "force" =>
        /\ pc # "threw"
        /\ pc \in {"iterate", "done"} => DOMAIN positions = IdsOf(nodes)
        /\ pc = "done" =>
            positions = applyForceLayout(nodes, WithoutDangling(connections, nodes),
                                         args.iterations)

C12_Witness ==
    /\ Returned("force")
    /\ i = MaxIterations
    /\ Len(nodes) = 2
    /\ \E k, m \in 1..Len(connections) :
        /\ connections[k].source \in IdsOf(nodes) /\ connections[k].target = "x"
        /\ connections[m].source = "x" /\ connections[m].target \in IdsOf(nodes)

WithoutSelfEdges(conns) == SelectSeq(conns, LAMBDA c : c.source # c.target)

\* C13: a self-edge adds no displacement and raises nothing: the positions
\* applyForceLayout returns are those of the same call with every self-edge
\* removed.
C13_SelfEdgeNoDisplacement ==
    fn = "force" =>
        /\ pc # "threw"
        /\ pc = "done" =>
            positions = applyForceLayout(nodes, WithoutSelfEdges(connections),
                                         args.iterations)

C13_Witness ==
    /\ Returned("force")
    /\ i = MaxIterations
    /\ Len(connections) = 2
    /\ connections[1].source = connections[1].target
    /\ connections[1].source \in IdsOf(nodes)
    /\ connections[2] = connections[1]
    /\ \E id \in DOMAIN positions : positions[id] # SeedPositions(nodes)[id]

Copies(conns, c) == Cardinality({k \in 1..Len(conns) : conns[k] = c})

\* what k copies of the edge c add to the velocity of id: k * 0.05 *
\* (pos[target] - pos[source]) if id is the source, minus the same if id is
\* the target
CopiesPull(pos, c, k, id) ==
    LET s == IF c.source = id THEN 1 ELSE 0
        t == IF c.target = id THEN 1 ELSE 0
    IN  Point((s - t) * k * Attract(pos[c.target].x - pos[c.source].x),
              (s - t) * k * Attract(pos[c.target].y - pos[c.source].y))

\* C14: parallel edges are not deduplicated: in every iteration the velocity
\* of a node changes by the repulsion, the gravity and, for each distinct edge
\* between nodes, the number of its copies times the pull of one copy.
C14_ParallelEdgesAdd ==
    (fn = "force" /\ pc = "iterate" /\ i' = i + 1) =>
        \A id \in DOMAIN velocities :
            LET r == Repulsion(positions, nodes, id)
                g == Gravity(positions[id])
                a == SumPoints([k \in 1..Len(connections) |->
                        IF \/ Dangling(connections[k], nodes)
                           \/ \E m \in 1..k - 1 : connections[m] = connections[k]
                        THEN Point(0, 0)
                        ELSE CopiesPull(positions, connections[k],
                                        Copies(connections, connections[k]), id)])
            IN  velocities'[id] = Damped(Point(velocities[id].x - r.x + a.x + g.x,
                                               velocities[id].y - r.y + a.y + g.y))

C14_EachEdgePulls == [][C14_ParallelEdgesAdd]_vars

C14_Witness ==
    /\ fn = "force" /\ pc = "iterate" /\ i >= 1
    /\ Len(connections) = 2
    /\ connections[1] = connections[2]
    /\ connections[1].source # connections[1].target
    /\ ~Dangling(connections[1], nodes)
    /\ velocities[connections[1].source].x
         - velocities[connections[1].target].x # 0

\* C15: the distance the repulsion step divides by is at least 1 pixel, so the
\* force between two distinct nodes never exceeds repulsionStrength (5000),
\* also for nodes less than a pixel apart.
C15_ForceAtMostStrength ==
    (fn = "force" /\ pc = "iterate" /\ LoopContinues(i, args.iterations)) =>
        \A a, b \in DOMAIN positions :
            LET dx == positions[b].x - positions[a].x
                dy == positions[b].y - positions[a].y
            IN  (a # b /\ Abs(dx) <= 30000 /\ Abs(dy) <= 30000) =>
                    /\ Dist(dx, dy) >= Scale
                    /\ Force(Dist(dx, dy)) <= repulsionStrength * Scale

\* C16: two or more nodes seeded at one point and one iteration or more: the
\* returned map holds two different positions.
C16_StackedNodesSeparate ==
    ( /\ Returned("force")
      /\ Len(nodes) >= 2
      /\ \A k, m \in 1..Len(nodes) : nodes[k].position = nodes[m].position
      /\ args.iterations >= 1 ) =>
        \E a, b \in DOMAIN positions : positions[a] # positions[b]

\* C17: two nodes, one edge between them, seeds mirrored about the center
\* (400,300): at every iteration count the positions sum to (800,600).
C17_MirrorKept ==
    ( /\ fn = "force" /\ pc \in {"iterate", "done"}
      /\ Len(nodes) = 2 /\ Len(connections) = 1
      /\ ~Dangling(connections[1], nodes)
      /\ connections[1].source # connections[1].target
      /\ nodes[1].position.x + nodes[2].position.x = 2 * centerX * Scale
      /\ nodes[1].position.y + nodes[2].position.y = 2 * centerY * Scale ) =>
        /\ positions[nodes[1].id].x + positions[nodes[2].id].x = 2 * centerX * Scale
        /\ positions[nodes[1].id].y + positions[nodes[2].id].y = 2 * centerY * Scale

C17_Witness ==
    /\ Returned("force")
    /\ i = MaxIterations
    /\ Len(nodes) = 2 /\ Len(connections) = 1
    /\ connections[1].source = nodes[1].id /\ connections[1].target = nodes[2].id
    /\ nodes[1].position = Point(300 * Scale, 300 * Scale)
    /\ nodes[2].position = Point(500 * Scale, 300 * Scale)
    /\ positions[nodes[1].id] # nodes[1].position
    /\ positions[nodes[1].id].x + positions[nodes[2].id].x = 2 * centerX * Scale

\* a step of the traversal that levels a node marks it visited, and it was
\* not visited before; the visited set only grows by the dequeued id
C18_MarkedOnce ==
    (fn = "hierarchical" /\ pc = "bfs" /\ pc' = "bfs") =>
        /\ \A id \in Ids :
            levels'[id] # levels[id] => (id \notin visited /\ id \in visited')
        /\ visited' # visited =>
            \E id \in Ids \ visited :
                /\ visited' = visited \cup {id}
                /\ queue # <<>> /\ Head(queue).id = id

\* C18: applyHierarchicalLayout terminates on every node and edge list (cycles,
\* self-edges, parallel and dangling edges included): the queue empties and
\* the call returns, and no id is marked visited twice.
C18_Terminates ==
    /\ <>(pc = "done" /\ queue = <<>>)
    /\ [][C18_MarkedOnce]_vars

C18_Witness ==
    /\ Returned("hierarchical")
    /\ \E k, m, r \in 1..Len(connections) :
        /\ connections[k].source # connections[k].target
        /\ connections[m].source = connections[k].target
        /\ connections[m].target = connections[k].source
        /\ connections[r].target = connections[k].source
        /\ connections[r].source \notin {connections[k].source, connections[k].target}
        /\ {connections[k].source, connections[k].target, connections[r].source}
             \subseteq visited

\* C19: the loop stops on the counter alone: the call returns after exactly
\* `iterations` integration steps, whatever the velocities are, and with
\* iterations = 0 every node is at its seed position.
C19_StopsOnCounter ==
    Returned("force") =>
        /\ i = args.iterations
        /\ positions = applyForceLayout(nodes, connections, args.iterations)
        /\ args.iterations = 0 => positions = SeedPositions(nodes)

C19_Witness ==
    /\ Returned("force")
    /\ i = MaxIterations
    /\ \E id \in DOMAIN velocities : velocities[id] # Point(0, 0)

C19_ZeroWitness ==
    /\ Returned("force")
    /\ args.iterations = 0
    /\ Len(nodes) = 2
    /\ Len(connections) >= 1

C21_IterationStep ==
    (fn = "force" /\ pc = "iterate" /\ i' = i + 1) =>
        \A id \in DOMAIN positions :
            LET r == Repulsion(positions, nodes, id)
                a == Attraction(positions, connections, id)
                g == Gravity(positions[id])
                vx == velocities[id].x - r.x + a.x + g.x
                vy == velocities[id].y - r.y + a.y + g.y
            IN  /\ positions'[id] = Point(positions[id].x + vx, positions[id].y + vy)
                /\ velocities'[id] = Point(TDiv(vx * 9, 10), TDiv(vy * 9, 10))

C21_ForcesThenIntegration == [][C21_IterationStep]_vars

C21_Witness ==
    /\ fn = "force" /\ pc = "iterate" /\ i = MaxIterations
    /\ Len(nodes) = 2 /\ Len(connections) >= 1
    /\ ~Dangling(connections[1], nodes)
    /\ connections[1].source # connections[1].target
    /\ \A id \in DOMAIN velocities :
        /\ velocities[id].x # 0
        /\ positions[id] # SeedPositions(nodes)[id]

\* the one node of a single-node graph
TheNode == nodes[1].id

\* twice the area spanned by p - center and seed - center: 0 on the line
\* through the seed and the center
OffLine(p, seed) ==
    (p.x - centerX * Scale) * (seed.y - centerY * Scale)
      - (p.y - centerY * Scale) * (seed.x - centerX * Scale)

C22_GravityStep ==
    (fn = "force" /\ pc = "iterate" /\ i' = i + 1) =>
        velocities'[TheNode] =
            Damped(Point(velocities[TheNode].x
                           + TDiv(centerX * Scale - positions[TheNode].x, 100),
                         velocities[TheNode].y
                           + TDiv(centerY * Scale - positions[TheNode].y, 100)))

C22_OnLine ==
    (fn = "force" /\ pc \in {"iterate", "done"}) =>
        LET seed == nodes[1].position
            p == positions[TheNode]
        IN  /\ seed = Point(centerX * Scale, centerY * Scale) => p = seed
            /\ seed.x = centerX * Scale => p.x = seed.x
            /\ seed.y = centerY * Scale => p.y = seed.y
            /\ Abs(OffLine(p, seed))
                 <= Scale * (Abs(seed.x - centerX * Scale) + Abs(seed.y - centerY * Scale))

\* C22: a single node gets 0.01 * (400 - x, 300 - y) added to its velocity in
\* every iteration; seeded at (400,300) it is returned there for every
\* iteration count, and seeded elsewhere it stays on the line through its seed
\* and the center (exactly on an axis of the center, within a pixel of
\* rounding elsewhere).
C22_CenterGravity == [](C22_OnLine) /\ [][C22_GravityStep]_vars

C22_Witness ==
    /\ Returned("force")
    /\ i = MaxIterations
    /\ nodes[1].position = Point(0, 0)
    /\ positions[TheNode].x > 0 /\ positions[TheNode].y > 0

C22_CenterWitness ==
    /\ Returned("force")
    /\ i = MaxIterations
    /\ nodes[1].position = Point(centerX * Scale, centerY * Scale)

\* the nodes of the input list that stand at `level`
NodesAt(level) == {id \in IdsOf(nodes) : levels[id] = level}

\* C23: for every edge u -> v with u reached by the traversal and v a node,
\* level(v) <= level(u) + 1; and the levels of the nodes are contiguous from
\* 0: every node at a level k > 0 has an incoming edge from a node at level
\* k - 1.
C23_LevelsContiguous ==
    Returned("hierarchical") =>
        /\ \A k \in 1..Len(connections) :
            (connections[k].source \in visited /\ connections[k].target \in IdsOf(nodes))
              => levels[connections[k].target] <= levels[connections[k].source] + 1
        /\ \A id \in IdsOf(nodes) :
            levels[id] > 0 =>
                \E k \in 1..Len(connections) :
                    /\ connections[k].target = id
                    /\ connections[k].source \in NodesAt(levels[id] - 1)

\* C24: with unique node ids and positive sizes, the grid and the hierarchical
\* layout never return the same position for two different ids.
C24_NoOverlap ==
    (Returned("grid") \/ Returned("hierarchical")) =>
        \A e, f \in DOMAIN positions : e # f => positions[e] # positions[f]

C24_Witness ==
    /\ Returned("grid")
    /\ Len(nodes) = MaxGridNodes
    /\ \E e, f \in DOMAIN positions : e # f /\ positions[e].x = positions[f].x
    /\ \E e, f \in DOMAIN positions : e # f /\ positions[e].y = positions[f].y

C24_HierWitness ==
    /\ Returned("hierarchical")
    /\ Len(nodes) = MaxNodes
    /\ \E e, f \in DOMAIN positions : e # f /\ positions[e].y = positions[f].y

\* C25: after any sequence of the store's operations navigationStack is not
\* empty, its first entry is system-overview and its last entry is the
\* current flowchart id.
C25_StackShape ==
    /\ Len(store.navigationStack) >= 1
    /\ store.navigationStack[1] = Home
    /\ store.navigationStack[Len(store.navigationStack)] = store.currentFlowchartId

C25_Witness ==
    /\ store.navigationStack = <<Home, "live-only">>
    /\ store.currentFlowchart = NullChart
    /\ ~store.isLiveMode

\* C26: navigationStack never holds the same flowchart id in two adjacent
\* entries, under any interleaving of the navigation operations, two
\* asynchronous navigations to one uncached id included.
C26_NoAdjacentRepeat ==
    \A k \in 1..Len(store.navigationStack) - 1 :
        store.navigationStack[k] # store.navigationStack[k + 1]

\* C27: isNavigating is true exactly while a fetch started by
\* navigateToFlowchartAsync has not settled.
C27_NavigatingWhileFetching == store.isNavigating <=> InFlight > 0

\* C28: when isLiveMode is false the displayed flowchart is null or the
\* flowchartData entry of the current id, never a live flowchart.
C28_MockWhenNotLive ==
    ~store.isLiveMode =>
        store.currentFlowchart \in {NullChart, FlowchartData(store.currentFlowchartId)}

Opens == \E s \in Sockets : sockets[s] = "connecting" /\ sockets'[s] = "open"
Closes == \E s \in Sockets : sockets[s] # "closed" /\ sockets'[s] = "closed"

C29_Counter ==
    /\ reconnectAttemptsRef \in 0..maxReconnectAttempts
    /\ scheduled <= maxReconnectAttempts

C29_Step ==
    /\ Opens => reconnectAttemptsRef' = 0
    /\ (Closes /\ reconnectAttemptsRef = maxReconnectAttempts) =>
        /\ timers' = timers
        /\ reconnectTimeoutRef' = reconnectTimeoutRef
        /\ reconnectAttemptsRef' = reconnectAttemptsRef
    /\ timers' > timers => (Closes /\ reconnectAttemptsRef' = reconnectAttemptsRef + 1)

\* C29: the retry is bounded: at most maxReconnectAttempts reconnect timers
\* are scheduled between two opens, the attempt counter never exceeds
\* maxReconnectAttempts, an open resets it to 0, and a close at the limit
\* schedules nothing.
C29_BoundedRetry == [](C29_Counter) /\ [][C29_Step]_vars

C29_Witness ==
    /\ reconnectAttemptsRef = maxReconnectAttempts
    /\ scheduled = maxReconnectAttempts
    /\ timers = 0
    /\ Cardinality({s \in Sockets : sockets[s] = "closed"}) = maxReconnectAttempts + 1

C29_ResetWitness ==
    /\ reconnectAttemptsRef = 0
    /\ \E s \in Sockets : sockets[s] = "open"
    /\ \E s \in Sockets : sockets[s] = "closed"

\* C30: after disconnect() no reconnect timer is pending and no socket is
\* created until the effect or the caller invokes connect(), also when the
\* close event of the socket it closed arrives afterwards.
C30_QuietAfterDisconnect ==
    /\ [](disconnected => timers = 0)
    /\ [][(disconnected /\ disconnected') =>
            \A s \in Sockets : sockets[s] = "none" => sockets'[s] = "none"]_vars


=============================================================================
